---- MODULE Spec2Model ----
(***************************************************************************)
(* ArrowRedis (bench_arrow.py): the splitter that stores one Arrow IPC     *)
(* file in Redis as one chunk per record batch, and the reader that        *)
(* fetches the chunks of selected partitions back and concatenates them.   *)
(*                                                                         *)
(* Strings are sequences of one-character strings, so that the key format  *)
(* and its parse are computed character by character.                      *)
(***************************************************************************)
EXTENDS Integers, Sequences, FiniteSets, TLC

\* ------------------------------------------------------------------
\* Bounds of the model
\* ------------------------------------------------------------------
MaxBatches == 3        \* record batches in the source file: 0..MaxBatches
MaxPartId == 1         \* partition ids of the source batches: 0..MaxPartId
MaxInflight == 2       \* max_inflight: 1..MaxInflight
MaxGather == 2         \* batch_gather_size: 1..MaxGather
MaxPerPart == 2        \* batches per partition, as generated and as read: 0..MaxPerPart
MaxPipeline == 2       \* pipeline: 1..MaxPipeline
MaxConcurrency == 2    \* concurrency: 1..MaxConcurrency
MaxPages == 2          \* pages of one key scan: 1..MaxPages
MaxFaults == 3         \* backend calls that fail in one run: 0..MaxFaults
MaxKeys == 4           \* batches_per_part when only the key lists are built: 0..MaxKeys
MaxWidth == 3          \* pipeline when only the key lists are built: 1..MaxWidth
MaxAttempts == 4       \* max_retries of retry_with_backoff called alone: 0..MaxAttempts
MaxBase == 2           \* base_delay of retry_with_backoff called alone: 1..MaxBase
MaxCap == 3            \* small max_delay of retry_with_backoff called alone: 1..MaxCap

\* ------------------------------------------------------------------
\* Program constants
\* ------------------------------------------------------------------
KeyWidth == 5          \* the 05d of the key format
MaxRetries == 3        \* max_retries passed by put_one and mget_partition
BaseDelay == 1         \* retry_with_backoff base_delay default
MaxDelay == 60         \* retry_with_backoff max_delay default

VARIABLES
    store,          \* the backend: key -> payload, a function on the stored keys
    issued,         \* kinds of backend commands issued so far
    faults,         \* number of calls (backend or file) that have failed so far
    conn,           \* the connection r of split_ipc_to_redis: "none", "open", "closed"
    closes,         \* number of r.close() calls of split_ipc_to_redis
    dataset,        \* the IPC file: sequence of record batches
    sargs,          \* arguments of split_ipc_to_redis
    spc,            \* position of split_ipc_to_redis
    i,              \* loop index of split_ipc_to_redis
    next_batch_idx, \* partition id -> next batch index
    put_tasks,      \* the list put_tasks: ids of the tasks not yet gathered
    tasks,          \* every task created: id -> [key, payload, st, attempt, calls, delays]
    sem,            \* value of the asyncio.Semaphore of the split
    total,          \* chunks dispatched so far
    rargs,          \* arguments of read_from_redis
    rpc,            \* position of read_from_redis
    rconn,          \* the connection r of read_from_redis
    rcloses,        \* number of r.close() calls of read_from_redis
    partitions,     \* the local partitions: the list of partition ids to read
    scan,           \* discover_partitions: [cursor, left, found, pages, arg, seen]
    all_chunks,     \* the fetch groups: sequence of key lists
    ftasks,         \* fetch_chunk coroutines: index -> [st, attempt, calls, fails, vals]
    reversed,       \* the fetches finished so far did so in reverse submission order
    rsem,           \* value of the asyncio.Semaphore of the read
    results,        \* the flattened list of payloads and Nones
    ptasks,         \* parse_one threads: index -> [st, table]
    table,          \* the table returned: a sequence of record batches
    report,         \* the counts logged: [present, total]
    kargs,          \* two addresses given to the key scheme: [prefix, p1, b1, p2, b2]
    kres,           \* what is computed for them: [k1, k2, r1, match1, found1, part1]
    retry           \* one call of retry_with_backoff: its arguments, attempt, position,
                    \* number of calls of func made and the delays slept

splitVars == <<dataset, sargs, spc, conn, closes, i, next_batch_idx, put_tasks, tasks,
               sem, total>>
readVars == <<rargs, rpc, rconn, rcloses, partitions, scan, all_chunks, ftasks, reversed, rsem,
              results, ptasks, table, report>>
vars == <<store, issued, faults, dataset, sargs, spc, conn, closes, i, next_batch_idx,
          put_tasks, tasks, sem, total, rargs, rpc, rconn, rcloses, partitions, scan,
          all_chunks, ftasks, reversed, rsem, results, ptasks, table, report, kargs, kres,
          retry>>
keyVars == <<kargs, kres, retry>>

\* ------------------------------------------------------------------
\* Chunk key scheme
\* ------------------------------------------------------------------
DigitChars == <<"0", "1", "2", "3", "4", "5", "6", "7", "8", "9">>

DigitChar(d) == DigitChars[d + 1]

IsDigit(c) == \E d \in 0..9 : DigitChars[d + 1] = c

DigitVal(c) == CHOOSE d \in 0..9 : DigitChars[d + 1] = c

\* str(n) for n >= 0
RECURSIVE Digits(_)
Digits(n) == IF n < 10 THEN <<DigitChar(n)>>
             ELSE Digits(n \div 10) \o <<DigitChar(n % 10)>>

RECURSIVE ZeroPad(_, _)
ZeroPad(s, w) == IF Len(s) >= w THEN s ELSE ZeroPad(<<"0">> \o s, w)

\* format(n, "05d"): at least KeyWidth characters, zero filled after the sign,
\* never truncated
Format05d(n) == IF n < 0 THEN <<"-">> \o ZeroPad(Digits(0 - n), KeyWidth - 1)
                ELSE ZeroPad(Digits(n), KeyWidth)

\* the key with the batch id rendered in both fields
ChunkKeyBatchTwice(prefix, part, b) ==
    prefix \o <<":", "{", "p", "a", "r", "t", "=">> \o Format05d(b)
           \o <<"}", ":", "b", "a", "t", "c", "h", "=">> \o Format05d(b)

\* f"{prefix}:{{part={part:05d}}}:batch={b:05d}"
ChunkKey(prefix, part, b) ==
    prefix \o <<":", "{", "p", "a", "r", "t", "=">> \o Format05d(part)
           \o <<"}", ":", "b", "a", "t", "c", "h", "=">> \o Format05d(b)

\* a reader that renders the ids without padding
ReadKeyUnpadded(prefix, p, b) ==
    prefix \o <<":", "{", "p", "a", "r", "t", "=">> \o Digits(p)
           \o <<"}", ":", "b", "a", "t", "c", "h", "=">> \o Digits(b)

\* the reader's f"{prefix}:{{part={p:05d}}}:batch={b:05d}"
ReadKey(prefix, p, b) ==
    prefix \o <<":", "{", "p", "a", "r", "t", "=">> \o Format05d(p)
           \o <<"}", ":", "b", "a", "t", "c", "h", "=">> \o Format05d(b)

\* the --prefix of the usage text
DemoPrefix == <<"d", "e", "m", "o", ":", "v", "1">>

\* the prefix run_benchmark builds for its 50mb configuration
BenchPrefix == <<"b", "e", "n", "c", "h", ":", "5", "0", "m", "b">>

\* ids given to the key scheme: both ends of the 5-digit range and carries
KeyIds == {0, 1, 10, 9999, 10000, 99999}

\* and one id that does not fit the field
KeyIdsWide == KeyIds \cup {100000}

KeyArgs == [prefix : {DemoPrefix, BenchPrefix}, p1 : KeyIdsWide, b1 : KeyIdsWide,
            p2 : KeyIds, b2 : KeyIds]

NoKeyArgs == [prefix |-> DemoPrefix, p1 |-> 0, b1 |-> 0, p2 |-> 0, b2 |-> 0]

NoKeyRes == [k1 |-> <<>>, k2 |-> <<>>, r1 |-> <<>>, match1 |-> FALSE, found1 |-> FALSE,
             part1 |-> 0]

\* ------------------------------------------------------------------
\* Codec (pyarrow IPC stream of one record batch)
\* ------------------------------------------------------------------
Encode(rb, compression) == [fmt |-> "ipc-stream", comp |-> compression, batch |-> rb]

Decode(buf) == buf.batch

\* ------------------------------------------------------------------
\* Source file
\* ------------------------------------------------------------------
\* record batch number k (0-based) of a file whose batches carry the partition
\* ids parts; without a partition column the field part is not there
Batch(k, hascol, parts) == [id |-> k, hascol |-> hascol,
                            part |-> IF hascol THEN parts[k + 1] ELSE 0]

PartSeqs == UNION {[1..n -> 0..MaxPartId] : n \in 0..MaxBatches}

Datasets == {[k \in 1..Len(ps) |-> Batch(k - 1, hc, ps)] : ps \in PartSeqs, hc \in BOOLEAN}

SplitArgs == [prefix : {DemoPrefix},
              batches_per_partition : 1..MaxPerPart,
              compression : {"zstd"},
              max_inflight : 1..MaxInflight,
              batch_gather_size : 1..MaxGather]

\* ------------------------------------------------------------------
\* Backend
\* ------------------------------------------------------------------
\* a write that adds to what the key holds (APPEND): a second write of the
\* same stream leaves two streams
StoreAppend(s, k, v) ==
    [x \in DOMAIN s \cup {k} |->
        IF x # k THEN s[x]
        ELSE IF k \in DOMAIN s THEN [v EXCEPT !.fmt = "ipc-stream,ipc-stream"] ELSE v]

\* SET key payload
StoreSet(s, k, v) == [x \in DOMAIN s \cup {k} |-> IF x = k THEN v ELSE s[x]]

EmptyStore == [x \in {} |-> 0]

\* ------------------------------------------------------------------
\* retry_with_backoff
\* ------------------------------------------------------------------
Min(a, b) == IF a < b THEN a ELSE b

RECURSIVE Pow2(_)
Pow2(n) == IF n = 0 THEN 1 ELSE 2 * Pow2(n - 1)

\* one attempt too many before raising
LastAttemptLate(attempt, max_retries) == attempt = max_retries

\* the attempt just failed is the last one: raise
LastAttempt(attempt, max_retries) == attempt = max_retries - 1

\* a retry loop that gives up quietly: it returns after the last attempt
ExhaustedReturns(task) == [task EXCEPT !.st = "done"]

\* the bare raise of the last attempt: the coroutine ends with the exception
Exhausted(task) == [task EXCEPT !.st = "failed"]

\* delay = min(base_delay * 2 ** attempt, max_delay)
\* the exponent taken one too high
BackoffDelayFromOne(attempt, base_delay, max_delay) ==
    Min(base_delay * Pow2(attempt + 1), max_delay)

BackoffDelay(attempt, base_delay, max_delay) == Min(base_delay * Pow2(attempt), max_delay)

\* outcomes: what each call of func did; result: the call whose value is
\* returned; error: the call whose exception is raised (0: none)
NoRetry == [max_retries |-> 0, base_delay |-> 1, max_delay |-> 1, attempt |-> 0,
            st |-> "idle", calls |-> 0, delays |-> <<>>, outcomes |-> <<>>,
            result |-> 0, error |-> 0]

\* calls of retry_with_backoff: the defaults among them
RetryInputs == [max_retries : 0..MaxAttempts, base_delay : 1..MaxBase,
                max_delay : (1..MaxCap) \cup {MaxDelay}, attempt : {0}, st : {"start"},
                calls : {0}, delays : {<<>>}, outcomes : {<<>>}, result : {0}, error : {0}]

\* ------------------------------------------------------------------
\* split_ipc_to_redis
\* ------------------------------------------------------------------
\* the partition taken from the position in the file, column or not
PartOfIndexOnly(rb, k, batches_per_partition) == k \div batches_per_partition

\* partition of source batch number k
PartOf(rb, k, batches_per_partition) ==
    IF rb.hascol THEN rb.part ELSE k \div batches_per_partition

\* a counter lookup that always answers 0
NextIdxZero(nbi, part) == 0

\* next_batch_idx.get(part, 0)
NextIdx(nbi, part) == IF part \in DOMAIN nbi THEN nbi[part] ELSE 0

\* the counter stepped by two
BumpIdxByTwo(nbi, part, b) == [x \in DOMAIN nbi \cup {part} |-> IF x = part THEN b + 2 ELSE nbi[x]]

\* next_batch_idx[part] = b_in_part + 1
BumpIdx(nbi, part, b) == [x \in DOMAIN nbi \cup {part} |-> IF x = part THEN b + 1 ELSE nbi[x]]

NewTask(key, payload) == [key |-> key, payload |-> payload, st |-> "pending",
                          attempt |-> 0, calls |-> 0, delays |-> <<>>]

\* a put_one that reads the key of the latest batch of the loop
PutKeyLatest(ts, t) == ts[Len(ts)].key

\* the key that put_one hands to r.set: its own argument
PutKey(ts, t) == ts[t].key

\* a put_one that reads the payload of the latest batch of the loop
PutPayloadLatest(ts, t) == ts[Len(ts)].payload

\* the payload that put_one hands to r.set: its own argument
PutPayload(ts, t) == ts[t].payload

\* a semaphore that also admits a holder when its value is 0
SemFreeAtZero(value) == value >= 0

\* the semaphore lets one more holder in
SemFree(value) == value > 0

\* a threshold test that lets one more task in
GatherDueLate(n, batch_gather_size) == n > batch_gather_size

\* len(put_tasks) >= batch_gather_size
GatherDue(n, batch_gather_size) == n >= batch_gather_size

\* a gather that takes a raised task for a finished one (return_exceptions=True)
AllSettled(ts, ids) == \A t \in ids : ts[t].st \in {"done", "failed"}

\* the tasks of put_tasks have all finished without an exception
AllDone(ts, ids) == \A t \in ids : ts[t].st = "done"

\* a task of put_tasks has raised
SomeFailed(ts, ids) == \E t \in ids : ts[t].st = "failed"

Range(s) == {s[k] : k \in DOMAIN s}

\* the event loop runs tasks only while the coordinating coroutine is
\* suspended in a gather, or after it has left split with tasks still scheduled
TasksMayRun == spc \in {"gather", "final_gather", "raised"}

InitSplit ==
    /\ dataset \in Datasets
    /\ sargs \in SplitArgs
    /\ spc = "start"
    /\ conn = "none"
    /\ closes = 0
    /\ i = 0
    /\ next_batch_idx = [x \in {} |-> 0]
    /\ put_tasks = <<>>
    /\ tasks = <<>>
    /\ sem = 0
    /\ total = 0

\* a split that first deletes the keys of its prefix, as cleanup_redis does
SplitOpenCleans ==
    /\ UNCHANGED faults
    /\ spc = "start"
    /\ conn' = "open"
    /\ issued' = issued \cup {"ping"}
    /\ sem' = sargs.max_inflight
    /\ spc' = "loop"
    /\ store' = [k \in {x \in DOMAIN store :
                            \/ Len(x) <= Len(sargs.prefix)
                            \/ SubSeq(x, 1, Len(sargs.prefix) + 1) # sargs.prefix \o <<":">>}
                    |-> store[k]]
    /\ UNCHANGED readVars
    /\ UNCHANGED keyVars
    /\ UNCHANGED <<closes, dataset, sargs, i, next_batch_idx, put_tasks, tasks, total>>

\* open_redis succeeds, ipc.open_file succeeds, the locals are set up
SplitOpen ==
    /\ UNCHANGED faults
    /\ spc = "start"
    /\ conn' = "open"
    /\ issued' = issued \cup {"ping"}
    /\ sem' = sargs.max_inflight
    /\ spc' = "loop"
    /\ UNCHANGED readVars
    /\ UNCHANGED keyVars
    /\ UNCHANGED <<store, closes, dataset, sargs, i, next_batch_idx, put_tasks, tasks, total>>

\* open_redis raises: nothing was opened
SplitOpenFail ==
    /\ faults < MaxFaults
    /\ faults' = faults + 1
    /\ spc = "start"
    /\ issued' = issued \cup {"ping"}
    /\ spc' = "raised"
    /\ UNCHANGED readVars
    /\ UNCHANGED keyVars
    /\ UNCHANGED <<store, conn, closes, dataset, sargs, i, next_batch_idx, put_tasks,
                   tasks, sem, total>>

\* ipc.open_file raises: r is closed and the error re-raised
SplitFileFail ==
    /\ faults < MaxFaults
    /\ faults' = faults + 1
    /\ spc = "start"
    /\ issued' = issued \cup {"ping"}
    /\ conn' = "closed"
    /\ closes' = closes + 1
    /\ spc' = "raised"
    /\ UNCHANGED readVars
    /\ UNCHANGED keyVars
    /\ UNCHANGED <<store, dataset, sargs, i, next_batch_idx, put_tasks, tasks, sem, total>>

\* one iteration of the for loop, up to its gather
SplitDispatch ==
    /\ UNCHANGED faults
    /\ spc = "loop"
    /\ i < Len(dataset)
    /\ LET rb == dataset[i + 1]
           part == PartOf(rb, i, sargs.batches_per_partition)
           b_in_part == NextIdx(next_batch_idx, part)
           key == ChunkKey(sargs.prefix, part, b_in_part)
           buf == Encode(rb, sargs.compression)
       IN /\ next_batch_idx' = BumpIdx(next_batch_idx, part, b_in_part)
          /\ tasks' = Append(tasks, NewTask(key, buf))
          /\ put_tasks' = Append(put_tasks, Len(tasks) + 1)
          /\ total' = total + 1
          /\ i' = i + 1
          /\ spc' = IF GatherDue(Len(put_tasks) + 1, sargs.batch_gather_size)
                    THEN "gather" ELSE "loop"
    /\ UNCHANGED readVars
    /\ UNCHANGED keyVars
    /\ UNCHANGED <<store, conn, closes, issued, dataset, sargs, sem>>

\* await asyncio.gather(*put_tasks) inside the loop returns; put_tasks.clear()
SplitGatherDone ==
    /\ UNCHANGED faults
    /\ spc = "gather"
    /\ AllDone(tasks, Range(put_tasks))
    /\ put_tasks' = <<>>
    /\ spc' = "loop"
    /\ UNCHANGED readVars
    /\ UNCHANGED keyVars
    /\ UNCHANGED <<store, conn, closes, issued, dataset, sargs, i, next_batch_idx,
                   tasks, sem, total>>

\* the for loop ends
SplitLoopEnd ==
    /\ UNCHANGED faults
    /\ spc = "loop"
    /\ i = Len(dataset)
    /\ IF put_tasks # <<>>
       THEN /\ spc' = "final_gather"
            /\ UNCHANGED <<conn, closes>>
       ELSE /\ spc' = "returned"
            /\ conn' = "closed"
            /\ closes' = closes + 1
    /\ UNCHANGED readVars
    /\ UNCHANGED keyVars
    /\ UNCHANGED <<store, issued, dataset, sargs, i, next_batch_idx, put_tasks, tasks,
                   sem, total>>

\* the final gather returns; finally: r.close(); return metrics
SplitFinalDone ==
    /\ UNCHANGED faults
    /\ spc = "final_gather"
    /\ AllDone(tasks, Range(put_tasks))
    /\ spc' = "returned"
    /\ conn' = "closed"
    /\ closes' = closes + 1
    /\ UNCHANGED readVars
    /\ UNCHANGED keyVars
    /\ UNCHANGED <<store, issued, dataset, sargs, i, next_batch_idx, put_tasks, tasks,
                   sem, total>>

\* a gather raises the exception of one of its tasks; finally: r.close(); raise
SplitGatherRaise ==
    /\ UNCHANGED faults
    /\ spc \in {"gather", "final_gather"}
    /\ SomeFailed(tasks, Range(put_tasks))
    /\ spc' = "raised"
    /\ conn' = "closed"
    /\ closes' = closes + 1
    /\ UNCHANGED readVars
    /\ UNCHANGED keyVars
    /\ UNCHANGED <<store, issued, dataset, sargs, i, next_batch_idx, put_tasks, tasks,
                   sem, total>>

\* put_one: async with sem, then the first r.set call of retry_with_backoff
PutAcquire(t) ==
    /\ UNCHANGED faults
    /\ TasksMayRun
    /\ tasks[t].st = "pending"
    /\ SemFree(sem)
    /\ sem' = sem - 1
    /\ tasks' = [tasks EXCEPT ![t].st = "calling", ![t].calls = 1]
    /\ issued' = issued \cup {"set"}
    /\ UNCHANGED readVars
    /\ UNCHANGED keyVars
    /\ UNCHANGED <<store, conn, closes, dataset, sargs, spc, i, next_batch_idx,
                   put_tasks, total>>

\* a put_one that never gives its slot back after a successful write
SetOkKeepsSlot(t) ==
    /\ UNCHANGED faults
    /\ TasksMayRun
    /\ tasks[t].st = "calling"
    /\ store' = StoreSet(store, PutKey(tasks, t), PutPayload(tasks, t))
    /\ tasks' = [tasks EXCEPT ![t].st = "done"]
    /\ sem' = sem
    /\ UNCHANGED readVars
    /\ UNCHANGED keyVars
    /\ UNCHANGED <<conn, closes, issued, dataset, sargs, spc, i, next_batch_idx,
                   put_tasks, total>>

\* r.set returns: retry_with_backoff returns, the semaphore is released
SetOk(t) ==
    /\ UNCHANGED faults
    /\ TasksMayRun
    /\ tasks[t].st = "calling"
    /\ store' = StoreSet(store, PutKey(tasks, t), PutPayload(tasks, t))
    /\ tasks' = [tasks EXCEPT ![t].st = "done"]
    /\ sem' = sem + 1
    /\ UNCHANGED readVars
    /\ UNCHANGED keyVars
    /\ UNCHANGED <<conn, closes, issued, dataset, sargs, spc, i, next_batch_idx,
                   put_tasks, total>>

\* a put_one that takes the semaphore around each attempt only: the slot is
\* given back before the backoff sleep
SetFailReleases(t) ==
    /\ faults < MaxFaults
    /\ faults' = faults + 1
    /\ TasksMayRun
    /\ tasks[t].st = "calling"
    /\ \E applied \in BOOLEAN :
          store' = IF applied THEN StoreSet(store, PutKey(tasks, t), PutPayload(tasks, t))
                   ELSE store
    /\ IF LastAttempt(tasks[t].attempt, MaxRetries)
       THEN tasks' = [tasks EXCEPT ![t] = Exhausted(@)]
       ELSE tasks' = [tasks EXCEPT
                  ![t].st = "sleeping",
                  ![t].delays = Append(@, BackoffDelay(tasks[t].attempt, BaseDelay, MaxDelay))]
    /\ sem' = sem + 1
    /\ UNCHANGED readVars
    /\ UNCHANGED keyVars
    /\ UNCHANGED <<conn, closes, issued, dataset, sargs, spc, i, next_batch_idx,
                   put_tasks, total>>

\* r.set raises; the server may or may not have applied the command
SetFail(t) ==
    /\ faults < MaxFaults
    /\ faults' = faults + 1
    /\ TasksMayRun
    /\ tasks[t].st = "calling"
    /\ \E applied \in BOOLEAN :
          store' = IF applied THEN StoreSet(store, PutKey(tasks, t), PutPayload(tasks, t))
                   ELSE store
    /\ IF LastAttempt(tasks[t].attempt, MaxRetries)
       THEN /\ tasks' = [tasks EXCEPT ![t] = Exhausted(@)]
            /\ sem' = sem + 1
       ELSE /\ tasks' = [tasks EXCEPT
                  ![t].st = "sleeping",
                  ![t].delays = Append(@, BackoffDelay(tasks[t].attempt, BaseDelay, MaxDelay))]
            /\ sem' = sem
    /\ UNCHANGED readVars
    /\ UNCHANGED keyVars
    /\ UNCHANGED <<conn, closes, issued, dataset, sargs, spc, i, next_batch_idx,
                   put_tasks, total>>

\* asyncio.sleep(delay) returns: the next attempt calls r.set
SetRetry(t) ==
    /\ UNCHANGED faults
    /\ TasksMayRun
    /\ tasks[t].st = "sleeping"
    /\ tasks' = [tasks EXCEPT ![t].st = "calling", ![t].attempt = @ + 1,
                              ![t].calls = @ + 1]
    /\ UNCHANGED readVars
    /\ UNCHANGED keyVars
    /\ UNCHANGED <<store, conn, closes, issued, dataset, sargs, spc, i, next_batch_idx,
                   put_tasks, sem, total>>

SplitNext ==
    \/ SplitOpen
    \/ SplitOpenFail
    \/ SplitFileFail
    \/ SplitDispatch
    \/ SplitGatherDone
    \/ SplitLoopEnd
    \/ SplitFinalDone
    \/ SplitGatherRaise
    \/ \E t \in DOMAIN tasks : PutAcquire(t)
    \/ \E t \in DOMAIN tasks : SetOk(t)
    \/ \E t \in DOMAIN tasks : SetFail(t)
    \/ \E t \in DOMAIN tasks : SetRetry(t)

\* ------------------------------------------------------------------
\* Backend: MGET and SCAN
\* ------------------------------------------------------------------
\* what MGET returns for a key that is not stored
NoneVal == [fmt |-> "None"]

\* a fetch that takes the keys out of the backend as it reads them (GETDEL)
AfterGetDel(s, keys) == [k \in DOMAIN s \ Range(keys) |-> s[k]]

\* the backend after MGET keys: as before
AfterMGet(s, keys) == s

\* a multi-get that answers with the values of the present keys only
MGetPresentOnly(s, keys) ==
    LET present == SelectSeq(keys, LAMBDA k : k \in DOMAIN s)
    IN [k \in 1..Len(present) |-> s[present[k]]]

\* MGET keys: one value per key, in the order of the keys
MGet(s, keys) == [k \in 1..Len(keys) |-> IF keys[k] \in DOMAIN s THEN s[keys[k]] ELSE NoneVal]

HasPrefix(s, pre) == Len(s) >= Len(pre) /\ SubSeq(s, 1, Len(pre)) = pre

\* the scan pattern f"{prefix}:{{part=*}}:batch=*", up to its first star and
\* between its stars
PatternHead(prefix) == prefix \o <<":", "{", "p", "a", "r", "t", "=">>

PatternMid == <<"}", ":", "b", "a", "t", "c", "h", "=">>

\* the pattern with a star in place of the prefix
GlobMatchAnyPrefix(key, prefix) ==
    \E h \in 1..Len(key) :
        /\ HasPrefix(SubSeq(key, h, Len(key)), PatternHead(<<>>))
        /\ \E j \in (h + Len(PatternHead(<<>>)))..(Len(key) - Len(PatternMid) + 1) :
               SubSeq(key, j, j + Len(PatternMid) - 1) = PatternMid

\* glob match of key against the scan pattern: each star stands for any string
GlobMatch(key, prefix) ==
    /\ HasPrefix(key, PatternHead(prefix))
    /\ \E j \in (Len(PatternHead(prefix)) + 1)..(Len(key) - Len(PatternMid) + 1) :
           SubSeq(key, j, j + Len(PatternMid) - 1) = PatternMid

\* ------------------------------------------------------------------
\* discover_partitions
\* ------------------------------------------------------------------
PartTag == <<"{", "p", "a", "r", "t", "=">>

\* last index of the run of digits that starts at index s (s - 1: no digit there)
RECURSIVE DigitsEnd(_, _)
DigitsEnd(key, s) == IF s <= Len(key) /\ IsDigit(key[s]) THEN DigitsEnd(key, s + 1)
                     ELSE s - 1

\* int(digits)
RECURSIVE ToInt(_)
ToInt(ds) == IF ds = <<>> THEN 0
             ELSE 10 * ToInt(SubSeq(ds, 1, Len(ds) - 1)) + DigitVal(ds[Len(ds)])

\* the regular expression \{part=(\d+)\} matches at index p
TagAt(key, p) ==
    /\ p + Len(PartTag) - 1 <= Len(key)
    /\ SubSeq(key, p, p + Len(PartTag) - 1) = PartTag
    /\ LET e == DigitsEnd(key, p + Len(PartTag))
       IN /\ e >= p + Len(PartTag)
          /\ e + 1 <= Len(key)
          /\ key[e + 1] = "}"

\* re.search: there is a match
TagFound(key) == \E p \in 1..Len(key) : TagAt(key, p)

\* the digits after "batch=" taken for the partition id
ParsePartOfBatch(key) ==
    LET p == CHOOSE q \in 1..Len(key) : SubSeq(key, q, q + Len(PatternMid) - 1) = PatternMid
    IN ToInt(SubSeq(key, p + Len(PatternMid), DigitsEnd(key, p + Len(PatternMid))))

\* int(match.group(1)) of the leftmost match
ParsePart(key) ==
    LET p == CHOOSE q \in 1..Len(key) : TagAt(key, q) /\ \A r \in 1..(q - 1) : ~TagAt(key, r)
    IN ToInt(SubSeq(key, p + Len(PartTag), DigitsEnd(key, p + Len(PartTag))))

\* partitions.add(...) for every key of one page
AddPage(found, page) == found \cup {ParsePart(k) : k \in {x \in page : TagFound(x)}}

\* the partitions in descending order
RECURSIVE SortedDescending(_)
SortedDescending(S) == IF S = {} THEN <<>>
                       ELSE LET m == CHOOSE x \in S : \A y \in S : x >= y
                            IN <<m>> \o SortedDescending(S \ {m})

\* sorted(partitions)
RECURSIVE Sorted(_)

Sorted(S) == IF S = {} THEN <<>>
             ELSE LET m == CHOOSE x \in S : \A y \in S : x <= y
                  IN <<m>> \o Sorted(S \ {m})

\* the test of the loop inverted: it ends on a cursor other than 0
ScanEndsNonZero(cursor) == cursor # 0

\* the loop ends when the cursor returned is 0
ScanEnds(cursor) == cursor = 0

\* batch ids counted from 1
PartKeysFromOne(prefix, p, batches_per_part) ==
    [b \in 1..batches_per_part |-> ReadKey(prefix, p, b)]

\* ------------------------------------------------------------------
\* read_from_redis
\* ------------------------------------------------------------------
\* part_keys of partition p
PartKeys(prefix, p, batches_per_part) ==
    [b \in 1..batches_per_part |-> ReadKey(prefix, p, b - 1)]

\* slices of full width only: the keys left over at the end are dropped
SlicesDropTail(keys, pipeline) ==
    [g \in 1..(Len(keys) \div pipeline) |->
        SubSeq(keys, (g - 1) * pipeline + 1, g * pipeline)]

\* [part_keys[i:i+pipeline] for i in range(0, len(part_keys), pipeline)]
Slices(keys, pipeline) ==
    [g \in 1..((Len(keys) + pipeline - 1) \div pipeline) |->
        SubSeq(keys, (g - 1) * pipeline + 1, Min(g * pipeline, Len(keys)))]

\* the key lists of all partitions joined
RECURSIVE AllPartKeys(_, _, _)
AllPartKeys(prefix, parts, batches_per_part) ==
    IF parts = <<>> THEN <<>>
    ELSE PartKeys(prefix, Head(parts), batches_per_part)
         \o AllPartKeys(prefix, Tail(parts), batches_per_part)

\* the keys of all partitions sliced as one list
BuildChunksFlat(prefix, parts, batches_per_part, pipeline) ==
    Slices(AllPartKeys(prefix, parts, batches_per_part), pipeline)

\* all_chunks after the loop over partitions
RECURSIVE BuildChunks(_, _, _, _)
BuildChunks(prefix, parts, batches_per_part, pipeline) ==
    IF parts = <<>> THEN <<>>
    ELSE Slices(PartKeys(prefix, Head(parts), batches_per_part), pipeline)
         \o BuildChunks(prefix, Tail(parts), batches_per_part, pipeline)

NewFetch == [st |-> "pending", attempt |-> 0, calls |-> 0, fails |-> 0, vals |-> <<>>]

\* the results in the reverse of the submission order
GatherResultsReversed(ts) == [g \in 1..Len(ts) |-> ts[Len(ts) + 1 - g].vals]

\* what asyncio.gather returns: the results in the order of its arguments
GatherResults(ts) == [g \in 1..Len(ts) |-> ts[g].vals]

\* results.extend(vl) for every vl
RECURSIVE Flatten(_)
Flatten(ls) == IF ls = <<>> THEN <<>> ELSE Head(ls) \o Flatten(Tail(ls))

\* "if buf": not None (the payload of an IPC stream is never empty)
Truthy(buf) == buf # NoneVal

\* the payloads up to the first None only
RECURSIVE ParseInputsUntilNone(_)
ParseInputsUntilNone(res) ==
    IF res = <<>> \/ ~Truthy(Head(res)) THEN <<>>
    ELSE <<Head(res)>> \o ParseInputsUntilNone(Tail(res))

\* parse_inputs
ParseInputs(res) == SelectSeq(res, Truthy)

\* parse_one: the table of one stream holds its one record batch
ParseOne(buf) == <<Decode(buf)>>

NewParse(buf) == [st |-> "running", buf |-> buf, table |-> <<>>]

\* pa.concat_tables(tables): the record batches of the tables, in list order
ConcatTables(ts) == Flatten([j \in 1..Len(ts) |-> ts[j].table])

PartLists == UNION {[1..n -> 0..MaxPartId] : n \in 0..2}

ReadArgs == [prefix : {DemoPrefix},
             discover : {FALSE},
             partitions : PartLists,
             batches_per_part : 0..MaxPerPart,
             pipeline : 1..MaxPipeline,
             concurrency : 1..MaxConcurrency]
            \cup
            [prefix : {DemoPrefix},
             discover : {TRUE},
             partitions : {<<>>},
             batches_per_part : 0..MaxPerPart,
             pipeline : 1..MaxPipeline,
             concurrency : 1..MaxConcurrency]

IdleReadArgs == [prefix |-> DemoPrefix, discover |-> FALSE, partitions |-> <<>>,
                 batches_per_part |-> 0, pipeline |-> 1, concurrency |-> 1]

IdleSplitArgs == [prefix |-> DemoPrefix, batches_per_partition |-> 1,
                  compression |-> "zstd", max_inflight |-> 1, batch_gather_size |-> 1]

\* cursor = 0 before the loop; arg is the cursor handed to the latest r.scan
\* call and seen the keys of the pages returned so far
NoScan == [cursor |-> 0, left |-> {}, found |-> {}, pages |-> 0, arg |-> 0, seen |-> {}]

\* the fetch coroutines run while read_from_redis waits in its gather, or after
\* it has left with coroutines still scheduled
FetchMayRun == rpc \in {"fetch", "raised"}

InitReadLocals ==
    /\ kargs = NoKeyArgs
    /\ kres = NoKeyRes
    /\ rconn = "none"
    /\ rcloses = 0
    /\ partitions = <<>>
    /\ scan = NoScan
    /\ all_chunks = <<>>
    /\ ftasks = <<>>
    /\ reversed = TRUE
    /\ rsem = 0
    /\ results = <<>>
    /\ ptasks = <<>>
    /\ table = <<>>
    /\ report = [present |-> 0, total |-> 0]

\* a semaphore as wide as the number of fetch groups
StartFetchUnbounded(parts) ==
    /\ partitions' = parts
    /\ all_chunks' = BuildChunks(rargs.prefix, parts, rargs.batches_per_part, rargs.pipeline)
    /\ ftasks' = [g \in 1..Len(all_chunks') |-> NewFetch]
    /\ rsem' = Len(all_chunks')
    /\ rpc' = "fetch"

\* lines 453-469: the key lists, the semaphore, one fetch_chunk per group
StartFetch(parts) ==
    /\ partitions' = parts
    /\ all_chunks' = BuildChunks(rargs.prefix, parts, rargs.batches_per_part, rargs.pipeline)
    /\ ftasks' = [g \in 1..Len(all_chunks') |-> NewFetch]
    /\ rsem' = rargs.concurrency
    /\ rpc' = "fetch"

\* open_redis succeeds
ReadOpen ==
    /\ UNCHANGED faults
    /\ rpc = "start"
    /\ rconn' = "open"
    /\ issued' = issued \cup {"ping"}
    /\ IF rargs.discover
       THEN /\ rpc' = "discover"
            /\ scan' = [NoScan EXCEPT !.left = {k \in DOMAIN store : GlobMatch(k, rargs.prefix)}]
            /\ UNCHANGED <<partitions, all_chunks, ftasks, rsem>>
       ELSE /\ StartFetch(rargs.partitions)
            /\ UNCHANGED scan
    /\ UNCHANGED <<store, rargs, rcloses, results, ptasks, table, report>>
    /\ UNCHANGED reversed
    /\ UNCHANGED splitVars
    /\ UNCHANGED keyVars

\* an open_redis wrapped in the retry: the ping fails on every attempt
ReadOpenFailRetried ==
    /\ faults + MaxRetries <= MaxFaults
    /\ faults' = faults + MaxRetries
    /\ rpc = "start"
    /\ issued' = issued \cup {"ping"}
    /\ rpc' = "raised"
    /\ UNCHANGED <<store, rargs, rconn, rcloses, partitions, scan, all_chunks, ftasks, rsem,
                   results, ptasks, table, report>>
    /\ UNCHANGED reversed
    /\ UNCHANGED splitVars
    /\ UNCHANGED keyVars

\* open_redis raises
ReadOpenFail ==
    /\ faults < MaxFaults
    /\ faults' = faults + 1
    /\ rpc = "start"
    /\ issued' = issued \cup {"ping"}
    /\ rpc' = "raised"
    /\ UNCHANGED <<store, rargs, rconn, rcloses, partitions, scan, all_chunks, ftasks, rsem,
                   results, ptasks, table, report>>
    /\ UNCHANGED reversed
    /\ UNCHANGED splitVars
    /\ UNCHANGED keyVars

\* one r.scan call of discover_partitions and the loop body on its page. The
\* backend returns any page of matching keys; a key stored during the whole
\* scan has been returned at least once when the cursor comes back as 0.
DiscoverScan ==
    /\ UNCHANGED faults
    /\ rpc = "discover"
    /\ \E page \in SUBSET {k \in DOMAIN store : GlobMatch(k, rargs.prefix)},
          cursor \in {0, scan.pages + 1} :
          /\ cursor = 0 => scan.left \subseteq page
          /\ cursor # 0 => scan.pages + 1 < MaxPages
          /\ LET found == AddPage(scan.found, page)
             IN /\ scan' = [cursor |-> cursor, left |-> scan.left \ page,
                            found |-> found, pages |-> scan.pages + 1,
                            arg |-> scan.cursor, seen |-> scan.seen \cup page]
                /\ IF ~ScanEnds(cursor)
                   THEN UNCHANGED <<rpc, rconn, rcloses, partitions, all_chunks, ftasks, rsem>>
                   ELSE IF Sorted(found) = <<>>
                        THEN /\ rpc' = "returned"
                             /\ rconn' = "closed"
                             /\ rcloses' = rcloses + 1
                             /\ UNCHANGED <<partitions, all_chunks, ftasks, rsem>>
                        ELSE /\ StartFetch(Sorted(found))
                             /\ UNCHANGED <<rconn, rcloses>>
    /\ issued' = issued \cup {"scan"}
    /\ UNCHANGED <<store, rargs, results, ptasks, table, report>>
    /\ UNCHANGED reversed
    /\ UNCHANGED splitVars
    /\ UNCHANGED keyVars

\* r.scan raises: discover_partitions does not retry; finally: r.close()
DiscoverFail ==
    /\ faults < MaxFaults
    /\ faults' = faults + 1
    /\ rpc = "discover"
    /\ issued' = issued \cup {"scan"}
    /\ rpc' = "raised"
    /\ rconn' = "closed"
    /\ rcloses' = rcloses + 1
    /\ UNCHANGED <<store, rargs, partitions, scan, all_chunks, ftasks, rsem, results,
                   ptasks, table, report>>
    /\ UNCHANGED reversed
    /\ UNCHANGED splitVars
    /\ UNCHANGED keyVars

\* fetch_chunk: async with sem, then the first r.mget call of retry_with_backoff
FetchAcquire(g) ==
    /\ UNCHANGED faults
    /\ FetchMayRun
    /\ ftasks[g].st = "pending"
    /\ SemFree(rsem)
    /\ rsem' = rsem - 1
    /\ ftasks' = [ftasks EXCEPT ![g].st = "calling", ![g].calls = 1]
    /\ issued' = issued \cup {"mget"}
    /\ UNCHANGED <<store, rargs, rpc, rconn, rcloses, partitions, scan, all_chunks,
                   results, ptasks, table, report>>
    /\ UNCHANGED reversed
    /\ UNCHANGED splitVars
    /\ UNCHANGED keyVars

\* r.mget returns
MgetOk(g) ==
    /\ UNCHANGED faults
    /\ FetchMayRun
    /\ ftasks[g].st = "calling"
    /\ ftasks' = [ftasks EXCEPT ![g].st = "done", ![g].vals = MGet(store, all_chunks[g])]
    /\ store' = AfterMGet(store, all_chunks[g])
    /\ reversed' = (reversed /\ \A h \in 1..(g - 1) : ftasks[h].st # "done")
    /\ rsem' = rsem + 1
    /\ UNCHANGED <<issued, rargs, rpc, rconn, rcloses, partitions, scan, all_chunks,
                   results, ptasks, table, report>>
    /\ UNCHANGED splitVars
    /\ UNCHANGED keyVars

\* r.mget raises
MgetFail(g) ==
    /\ faults < MaxFaults
    /\ faults' = faults + 1
    /\ FetchMayRun
    /\ ftasks[g].st = "calling"
    /\ IF LastAttempt(ftasks[g].attempt, MaxRetries)
       THEN /\ ftasks' = [ftasks EXCEPT ![g] = Exhausted([@ EXCEPT !.fails = @ + 1])]
            /\ rsem' = rsem + 1
       ELSE /\ ftasks' = [ftasks EXCEPT ![g].st = "sleeping", ![g].fails = @ + 1]
            /\ rsem' = rsem
    /\ UNCHANGED <<store, issued, rargs, rpc, rconn, rcloses, partitions, scan, all_chunks,
                   results, ptasks, table, report>>
    /\ UNCHANGED reversed
    /\ UNCHANGED splitVars
    /\ UNCHANGED keyVars

\* asyncio.sleep(delay) returns: the next attempt calls r.mget
MgetRetry(g) ==
    /\ UNCHANGED faults
    /\ FetchMayRun
    /\ ftasks[g].st = "sleeping"
    /\ ftasks' = [ftasks EXCEPT ![g].st = "calling", ![g].attempt = @ + 1,
                                ![g].calls = @ + 1]
    /\ UNCHANGED <<store, issued, rargs, rpc, rconn, rcloses, partitions, scan, all_chunks,
                   rsem, results, ptasks, table, report>>
    /\ UNCHANGED reversed
    /\ UNCHANGED splitVars
    /\ UNCHANGED keyVars

\* the gather of the fetches returns; flatten; one parse thread per present payload
ReadGatherDone ==
    /\ UNCHANGED faults
    /\ rpc = "fetch"
    /\ AllDone(ftasks, DOMAIN ftasks)
    /\ results' = Flatten(GatherResults(ftasks))
    /\ ptasks' = [j \in 1..Len(ParseInputs(results')) |-> NewParse(ParseInputs(results')[j])]
    /\ rpc' = "parse"
    /\ UNCHANGED <<store, issued, rargs, rconn, rcloses, partitions, scan, all_chunks,
                   ftasks, rsem, table, report>>
    /\ UNCHANGED reversed
    /\ UNCHANGED splitVars
    /\ UNCHANGED keyVars

\* the gather of the fetches raises with no finally clause: r stays open
ReadGatherRaiseLeaks ==
    /\ UNCHANGED faults
    /\ rpc = "fetch"
    /\ SomeFailed(ftasks, DOMAIN ftasks)
    /\ rpc' = "raised"
    /\ UNCHANGED <<rconn, rcloses>>
    /\ UNCHANGED <<store, issued, rargs, partitions, scan, all_chunks, ftasks, rsem,
                   results, ptasks, table, report>>
    /\ UNCHANGED reversed
    /\ UNCHANGED splitVars
    /\ UNCHANGED keyVars

\* the gather of the fetches raises; finally: r.close()
ReadGatherRaise ==
    /\ UNCHANGED faults
    /\ rpc = "fetch"
    /\ SomeFailed(ftasks, DOMAIN ftasks)
    /\ rpc' = "raised"
    /\ rconn' = "closed"
    /\ rcloses' = rcloses + 1
    /\ UNCHANGED <<store, issued, rargs, partitions, scan, all_chunks, ftasks, rsem,
                   results, ptasks, table, report>>
    /\ UNCHANGED reversed
    /\ UNCHANGED splitVars
    /\ UNCHANGED keyVars

\* one parse_one thread finishes
ParseDone(j) ==
    /\ UNCHANGED faults
    /\ rpc = "parse"
    /\ ptasks[j].st = "running"
    /\ ptasks' = [ptasks EXCEPT ![j].st = "done", ![j].table = ParseOne(ptasks[j].buf)]
    /\ UNCHANGED <<store, issued, rargs, rpc, rconn, rcloses, partitions, scan, all_chunks,
                   ftasks, rsem, results, table, report>>
    /\ UNCHANGED reversed
    /\ UNCHANGED splitVars
    /\ UNCHANGED keyVars

\* the gather of the parses returns; concat_tables; the log line; return table
ReadReturn ==
    /\ UNCHANGED faults
    /\ rpc = "parse"
    /\ AllDone(ptasks, DOMAIN ptasks)
    /\ table' = ConcatTables(ptasks)
    /\ report' = [present |-> Len(ParseInputs(results)), total |-> Len(results)]
    /\ rpc' = "returned"
    /\ rconn' = "closed"
    /\ rcloses' = rcloses + 1
    /\ UNCHANGED <<store, issued, rargs, partitions, scan, all_chunks, ftasks, rsem,
                   results, ptasks>>
    /\ UNCHANGED reversed
    /\ UNCHANGED splitVars
    /\ UNCHANGED keyVars

FetchNext ==
    \/ \E g \in DOMAIN ftasks : FetchAcquire(g)
    \/ \E g \in DOMAIN ftasks : MgetOk(g)
    \/ \E g \in DOMAIN ftasks : MgetFail(g)
    \/ \E g \in DOMAIN ftasks : MgetRetry(g)
    \/ ReadGatherDone
    \/ ReadGatherRaise
    \/ \E j \in DOMAIN ptasks : ParseDone(j)
    \/ ReadReturn

ReadNext ==
    \/ ReadOpen
    \/ ReadOpenFail
    \/ DiscoverScan
    \/ DiscoverFail
    \/ FetchNext

\* ------------------------------------------------------------------
\* Specifications
\* ------------------------------------------------------------------
\* a split alone, on an empty backend
InitS ==
    /\ retry = NoRetry
    /\ store = EmptyStore
    /\ issued = {}
    /\ faults = 0
    /\ InitSplit
    /\ rargs = IdleReadArgs
    /\ rpc = "idle"
    /\ InitReadLocals

SpecSplit == InitS /\ [][SplitNext]_vars

\* the event loop runs whatever is ready: an outstanding r.set returns or
\* raises, a sleep ends, a ready coroutine is resumed
SpecSplitFair == InitS /\ [][SplitNext]_vars /\ WF_vars(SplitNext)

\* partition ids at the end of the 5-digit field and one past it
WidePartIds == {99999, 100000}

\* files of one or two batches whose partition column holds such ids
WideDatasets == {[k \in 1..Len(ps) |-> Batch(k - 1, TRUE, ps)] :
                    ps \in UNION {[1..n -> WidePartIds] : n \in 1..2}}

\* a split of a file whose partition column holds ids as wide as the key field
\* and wider
InitW ==
    /\ retry = NoRetry
    /\ store = EmptyStore
    /\ issued = {}
    /\ faults = 0
    /\ dataset \in WideDatasets
    /\ sargs \in SplitArgs
    /\ spc = "start"
    /\ conn = "none"
    /\ closes = 0
    /\ i = 0
    /\ next_batch_idx = [x \in {} |-> 0]
    /\ put_tasks = <<>>
    /\ tasks = <<>>
    /\ sem = 0
    /\ total = 0
    /\ rargs = IdleReadArgs
    /\ rpc = "idle"
    /\ InitReadLocals

SpecWide == InitW /\ [][SplitNext]_vars

\* the chunk that a split of a generated file stores at an address
StoredChunk(p, b) == Encode([id |-> p * MaxPerPart + b, hascol |-> TRUE, part |-> p], "zstd")

Addresses == (0..MaxPartId) \X (0..(MaxPerPart - 1))

\* the backends that splits leave behind: any set of chunks
StoreOf(A) == [k \in {ChunkKey(DemoPrefix, a[1], a[2]) : a \in A} |->
                  LET a == CHOOSE x \in A : ChunkKey(DemoPrefix, x[1], x[2]) = k
                  IN StoredChunk(a[1], a[2])]

\* a backend that holds a chunk of another namespace only
ForeignStore == [k \in {ChunkKey(BenchPrefix, 0, 0)} |-> StoredChunk(0, 0)]

\* a read alone, on a backend that earlier splits have filled
InitR ==
    /\ retry = NoRetry
    /\ store \in {StoreOf(A) : A \in SUBSET Addresses} \cup {ForeignStore}
    /\ issued = {}
    /\ faults = 0
    /\ dataset = <<>>
    /\ sargs = IdleSplitArgs
    /\ spc = "idle"
    /\ conn = "none"
    /\ closes = 0
    /\ i = 0
    /\ next_batch_idx = [x \in {} |-> 0]
    /\ put_tasks = <<>>
    /\ tasks = <<>>
    /\ sem = 0
    /\ total = 0
    /\ rargs \in ReadArgs
    /\ rpc = "start"
    /\ InitReadLocals

SpecRead == InitR /\ [][ReadNext]_vars

\* one call of either function: a split alone or a read alone
InitCall == InitS \/ InitR

CallNext ==
    \/ SplitNext
    \/ ReadNext

SpecCall == InitCall /\ [][CallNext]_vars

\* a split on a backend that earlier splits, of the same prefix or of another,
\* have filled
InitStale ==
    /\ retry = NoRetry
    /\ store \in {StoreOf(A) : A \in SUBSET Addresses} \cup {ForeignStore}
    /\ issued = {}
    /\ faults = 0
    /\ InitSplit
    /\ rargs = IdleReadArgs
    /\ rpc = "idle"
    /\ InitReadLocals

SpecStale == InitStale /\ [][SplitNext]_vars

\* discover_partitions alone: a read that discovers its partitions, up to the
\* end of the key scan
InitScan ==
    /\ InitR
    /\ rargs.discover

ScanNext ==
    \/ ReadOpen
    \/ ReadOpenFail
    \/ DiscoverScan
    \/ DiscoverFail

\* the awaited r.scan call completes and the coroutine goes on: weak fairness
\* of DiscoverScan, which is enabled exactly while rpc = "discover"
ScanFair == []<>(rpc # "discover") \/ []<><<DiscoverScan>>_vars

SpecScan == InitScan /\ [][ScanNext]_vars /\ ScanFair

\* ------------------------------------------------------------------
\* run_benchmark: generate, split, read
\* ------------------------------------------------------------------
\* the BenchmarkConfig shapes: partitions x batches
BenchShapes == {sh \in (1..(MaxPartId + 1)) \X (1..MaxPerPart) : sh[1] * sh[2] <= MaxBatches}

\* number of batches of partition p in a file
CountOf(d, p) == Cardinality({k \in DOMAIN d : d[k].part = p})

\* a file of the shape: every partition 0..P-1 has B batches, in any order;
\* without the partition column only the length is left of the shape
HasShape(d, sh) ==
    /\ Len(d) = sh[1] * sh[2]
    /\ \A k \in DOMAIN d : d[k].hascol => d[k].part < sh[1]
    /\ \A p \in 0..(sh[1] - 1) : (\A k \in DOMAIN d : d[k].hascol) => CountOf(d, p) = sh[2]

\* list(range(config.partitions))
RangeList(n) == [k \in 1..n |-> k - 1]

\* what run_benchmark passes to read_from_redis after the split has returned
BenchReadArgs(prefix, nbatches, batches, pipeline, concurrency) ==
    [prefix |-> prefix, discover |-> FALSE,
     partitions |-> RangeList(nbatches \div batches),
     batches_per_part |-> batches, pipeline |-> pipeline, concurrency |-> concurrency]

InitBench ==
    /\ retry = NoRetry
    /\ store = EmptyStore
    /\ issued = {}
    /\ faults = 0
    /\ \E sh \in BenchShapes :
          /\ dataset \in {d \in Datasets : HasShape(d, sh)}
          /\ sargs \in {a \in SplitArgs : a.batches_per_partition = sh[2]}
    /\ spc = "start"
    /\ conn = "none"
    /\ closes = 0
    /\ i = 0
    /\ next_batch_idx = [x \in {} |-> 0]
    /\ put_tasks = <<>>
    /\ tasks = <<>>
    /\ sem = 0
    /\ total = 0
    /\ rargs = IdleReadArgs
    /\ rpc = "idle"
    /\ InitReadLocals

\* split_ipc_to_redis has returned (its locals are gone) and run_benchmark
\* calls read_from_redis over all partitions of the file
BenchRead ==
    /\ spc = "returned"
    /\ rpc = "idle"
    /\ \E pipeline \in 1..MaxPipeline, concurrency \in 1..MaxConcurrency :
          rargs' = BenchReadArgs(sargs.prefix, Len(dataset), sargs.batches_per_partition,
                                 pipeline, concurrency)
    /\ rpc' = "start"
    /\ spc' = "left"
    /\ i' = 0
    /\ next_batch_idx' = [x \in {} |-> 0]
    /\ put_tasks' = <<>>
    /\ tasks' = <<>>
    /\ sem' = 0
    /\ UNCHANGED <<store, issued, faults, dataset, sargs, conn, closes, total, rconn, rcloses,
                   partitions, scan, all_chunks, ftasks, reversed, rsem, results, ptasks,
                   table, report>>
    /\ UNCHANGED keyVars

Next ==
    \/ SplitNext
    \/ BenchRead
    \/ ReadOpen
    \/ ReadOpenFail
    \/ FetchNext

Spec == InitBench /\ [][Next]_vars

\* ------------------------------------------------------------------
\* The fetch groups alone
\* ------------------------------------------------------------------
ChunkArgs == [prefix : {DemoPrefix},
              discover : {FALSE},
              partitions : PartLists,
              batches_per_part : 0..MaxKeys,
              pipeline : 1..MaxWidth,
              concurrency : {1}]

InitC ==
    /\ retry = NoRetry
    /\ store = EmptyStore
    /\ issued = {}
    /\ faults = 0
    /\ dataset = <<>>
    /\ sargs = IdleSplitArgs
    /\ spc = "idle"
    /\ conn = "none"
    /\ closes = 0
    /\ i = 0
    /\ next_batch_idx = [x \in {} |-> 0]
    /\ put_tasks = <<>>
    /\ tasks = <<>>
    /\ sem = 0
    /\ total = 0
    /\ rargs \in ChunkArgs
    /\ rpc = "keys"
    /\ InitReadLocals

\* lines 453-458 of read_from_redis: the loop that fills all_chunks
BuildKeys ==
    /\ rpc = "keys"
    /\ partitions' = rargs.partitions
    /\ all_chunks' = BuildChunks(rargs.prefix, rargs.partitions, rargs.batches_per_part,
                                 rargs.pipeline)
    /\ rpc' = "built"
    /\ UNCHANGED <<store, issued, faults, rargs, rconn, rcloses, scan, ftasks, reversed, rsem,
                   results, ptasks, table, report>>
    /\ UNCHANGED splitVars
    /\ UNCHANGED keyVars

SpecChunks == InitC /\ [][BuildKeys]_vars

\* ------------------------------------------------------------------
\* The key scheme alone
\* ------------------------------------------------------------------
InitK ==
    /\ retry = NoRetry
    /\ store = EmptyStore
    /\ issued = {}
    /\ faults = 0
    /\ dataset = <<>>
    /\ sargs = IdleSplitArgs
    /\ spc = "idle"
    /\ conn = "none"
    /\ closes = 0
    /\ i = 0
    /\ next_batch_idx = [x \in {} |-> 0]
    /\ put_tasks = <<>>
    /\ tasks = <<>>
    /\ sem = 0
    /\ total = 0
    /\ rargs = IdleReadArgs
    /\ rpc = "idle"
    /\ rconn = "none"
    /\ rcloses = 0
    /\ partitions = <<>>
    /\ scan = NoScan
    /\ all_chunks = <<>>
    /\ ftasks = <<>>
    /\ reversed = TRUE
    /\ rsem = 0
    /\ results = <<>>
    /\ ptasks = <<>>
    /\ table = <<>>
    /\ report = [present |-> 0, total |-> 0]
    /\ kargs \in KeyArgs
    /\ kres = NoKeyRes

\* the key of each of the two addresses as the splitter builds it, the key of
\* the first as the reader builds it, and what discovery makes of the first
\* key: whether the scan pattern matches it, whether the regular expression
\* finds a tag in it, and the partition id parsed
KeyCompute ==
    /\ kres = NoKeyRes
    /\ LET key == ChunkKey(kargs.prefix, kargs.p1, kargs.b1)
       IN kres' = [k1 |-> key,
                   k2 |-> ChunkKey(kargs.prefix, kargs.p2, kargs.b2),
                   r1 |-> ReadKey(kargs.prefix, kargs.p1, kargs.b1),
                   match1 |-> GlobMatch(key, kargs.prefix),
                   found1 |-> TagFound(key),
                   part1 |-> IF TagFound(key) THEN ParsePart(key) ELSE 0]
    /\ UNCHANGED <<store, issued, faults, kargs, retry>>
    /\ UNCHANGED splitVars
    /\ UNCHANGED readVars

SpecKey == InitK /\ [][KeyCompute]_vars

\* ------------------------------------------------------------------
\* retry_with_backoff alone, on a function that fails or returns
\* ------------------------------------------------------------------
InitRetry ==
    /\ store = EmptyStore
    /\ issued = {}
    /\ faults = 0
    /\ dataset = <<>>
    /\ sargs = IdleSplitArgs
    /\ spc = "idle"
    /\ conn = "none"
    /\ closes = 0
    /\ i = 0
    /\ next_batch_idx = [x \in {} |-> 0]
    /\ put_tasks = <<>>
    /\ tasks = <<>>
    /\ sem = 0
    /\ total = 0
    /\ rargs = IdleReadArgs
    /\ rpc = "idle"
    /\ InitReadLocals
    /\ retry \in RetryInputs

\* for attempt in range(max_retries): the first call of func, or, with no
\* attempt to make, the RuntimeError after the loop
RetryEnter ==
    /\ retry.st = "start"
    /\ retry' = IF retry.max_retries = 0 THEN [retry EXCEPT !.st = "failed"]
                ELSE [retry EXCEPT !.st = "calling", !.calls = 1]
    /\ UNCHANGED <<store, issued, faults, kargs, kres>>
    /\ UNCHANGED splitVars
    /\ UNCHANGED readVars

\* a loop without the return inside: every attempt is made and the value of
\* the last one is returned
RetryReturnNoBreak ==
    /\ retry.st = "calling"
    /\ retry' = IF LastAttempt(retry.attempt, retry.max_retries)
                THEN [retry EXCEPT !.st = "returned", !.result = retry.calls,
                                   !.outcomes = Append(@, "ok")]
                ELSE [retry EXCEPT !.attempt = @ + 1, !.calls = @ + 1,
                                   !.outcomes = Append(@, "ok")]
    /\ UNCHANGED <<store, issued, faults, kargs, kres>>
    /\ UNCHANGED splitVars
    /\ UNCHANGED readVars

\* func returns: return its value
RetryReturn ==
    /\ retry.st = "calling"
    /\ retry' = [retry EXCEPT !.st = "returned", !.result = retry.calls,
                              !.outcomes = Append(@, "ok")]
    /\ UNCHANGED <<store, issued, faults, kargs, kres>>
    /\ UNCHANGED splitVars
    /\ UNCHANGED readVars

\* func raises: re-raise on the last attempt, else compute the delay and sleep
RetryFail ==
    /\ retry.st = "calling"
    /\ retry' = IF LastAttempt(retry.attempt, retry.max_retries)
                THEN [Exhausted(retry) EXCEPT !.error = retry.calls,
                                              !.outcomes = Append(@, "err")]
                ELSE [retry EXCEPT !.st = "sleeping",
                                   !.outcomes = Append(@, "err"),
                                   !.delays = Append(@, BackoffDelay(retry.attempt,
                                                     retry.base_delay, retry.max_delay))]
    /\ UNCHANGED <<store, issued, faults, kargs, kres>>
    /\ UNCHANGED splitVars
    /\ UNCHANGED readVars

\* asyncio.sleep(delay) returns: the next attempt calls func
RetryWake ==
    /\ retry.st = "sleeping"
    /\ retry' = [retry EXCEPT !.st = "calling", !.attempt = @ + 1, !.calls = @ + 1]
    /\ UNCHANGED <<store, issued, faults, kargs, kres>>
    /\ UNCHANGED splitVars
    /\ UNCHANGED readVars

RetryNext ==
    \/ RetryEnter
    \/ RetryReturn
    \/ RetryFail
    \/ RetryWake

SpecRetry == InitRetry /\ [][RetryNext]_vars

\* ------------------------------------------------------------------
\* Properties
\* ------------------------------------------------------------------
\* the partition list the read works on
ReqParts == IF rargs.discover THEN partitions ELSE rargs.partitions

\* the addresses requested, in key order: partitions in request order, batch
\* ids ascending within each partition
ReqAddrs == Flatten([k \in 1..Len(ReqParts) |->
                        [b \in 1..rargs.batches_per_part |-> <<ReqParts[k], b - 1>>]])

IsStored(a) == ChunkKey(rargs.prefix, a[1], a[2]) \in DOMAIN store

PresentAddrs == SelectSeq(ReqAddrs, IsStored)

\* the batches stored at the requested addresses that are present, in key order
PresentBatches == [j \in 1..Len(PresentAddrs) |->
                      Decode(store[ChunkKey(rargs.prefix, PresentAddrs[j][1], PresentAddrs[j][2])])]

\* the batch of every requested address, present or not, in key order
RequestedBatches == [j \in 1..Len(ReqAddrs) |-> Decode(StoredChunk(ReqAddrs[j][1], ReqAddrs[j][2]))]

\* a is b with some elements left out
RECURSIVE IsSubseq(_, _)
IsSubseq(a, b) == IF a = <<>> THEN TRUE
                  ELSE IF b = <<>> THEN FALSE
                  ELSE IF Head(a) = Head(b) THEN IsSubseq(Tail(a), Tail(b))
                  ELSE IsSubseq(a, Tail(b))

\* C1: round trip. When the read that follows a successful split of a file of
\* P partitions with B batches each returns, its table holds every batch of
\* the file exactly once and nothing else, for every pipeline and concurrency.
C1_RoundTrip ==
    rpc = "returned" =>
        /\ Len(table) = Len(dataset)
        /\ \A k \in DOMAIN dataset : Cardinality({j \in DOMAIN table : table[j] = dataset[k]}) = 1

\* a read returned two batches of two partitions that the file held in the
\* other order, in two fetch groups
C1_Witness ==
    /\ rpc = "returned"
    /\ Len(dataset) = 2
    /\ dataset[1].hascol /\ dataset[1].part = 1 /\ dataset[2].part = 0
    /\ Len(table) = 2
    /\ Len(all_chunks) = 2

\* C2: ordering under concurrency. Whatever the order in which the fetch
\* groups and the parses finish, the table returned lists its batches in key
\* order: partitions in request order, batch ids ascending within a partition.
C2_KeyOrder == rpc = "returned" => IsSubseq(table, RequestedBatches)

\* with concurrency > 1 the groups of two partitions finished in reverse
\* submission order and the read returned their batches
C2_Witness ==
    /\ rpc = "returned"
    /\ rargs.concurrency > 1
    /\ Len(ftasks) >= 2
    /\ reversed
    /\ Len(table) >= 3
    /\ \E j \in DOMAIN table : table[j].part # table[1].part

\* partition of each source batch, as the splitter maps it
SourcePart(k) == PartOf(dataset[k], k - 1, sargs.batches_per_partition)

SourceParts == {SourcePart(k) : k \in DOMAIN dataset}

\* N: the number of source batches that map to partition p
BatchesOf(p) == Cardinality({k \in DOMAIN dataset : SourcePart(k) = p})

TaskKeys == {tasks[t].key : t \in DOMAIN tasks}

\* C3: dense numbering. After a split, the keys written for a partition p to
\* which N batches map are exactly those of batch ids 0..N-1, none used twice,
\* whatever the interleaving of the partitions in the file.
C3_DenseNumbering ==
    spc = "returned" =>
        /\ DOMAIN store = TaskKeys
        /\ Cardinality(TaskKeys) = Len(dataset)
        /\ \A p \in SourceParts :
              TaskKeys \cap {ChunkKey(sargs.prefix, p, b) : b \in 0..MaxBatches}
                  = {ChunkKey(sargs.prefix, p, b) : b \in 0..(BatchesOf(p) - 1)}

\* a split returned for a file whose partitions interleave: 0, 1, 0
C3_Witness ==
    /\ spc = "returned"
    /\ Len(dataset) = 3
    /\ dataset[1].hascol
    /\ dataset[1].part = 0 /\ dataset[2].part = 1 /\ dataset[3].part = 0

\* C4: address injectivity. For one prefix and ids in 0..99999, the keys of
\* two addresses are equal if and only if the addresses are equal.
C4_Injective ==
    kres # NoKeyRes =>
        ((kres.k1 = kres.k2) <=> (kargs.p1 = kargs.p2 /\ kargs.b1 = kargs.b2))

\* the keys of two addresses that differ only by a swap of partition and batch
C4_Witness ==
    /\ kres # NoKeyRes
    /\ kargs.p1 = 10000 /\ kargs.b1 = 1
    /\ kargs.p2 = 1 /\ kargs.b2 = 10000

\* C5: no partial silent success. A split in which a write has failed for good
\* never returns; when a split returns, one write per source batch was
\* dispatched and each has succeeded.
C5_NoSilentPartial ==
    /\ (\E t \in DOMAIN tasks : tasks[t].st = "failed") => spc # "returned"
    /\ spc = "returned" =>
          /\ Len(tasks) = Len(dataset)
          /\ \A t \in DOMAIN tasks : tasks[t].st = "done"

\* a write exhausted its attempts after another write had succeeded, and the
\* split raised
C5_Witness ==
    /\ spc = "raised"
    /\ \E t \in DOMAIN tasks : tasks[t].st = "failed"
    /\ \E t \in DOMAIN tasks : tasks[t].st = "done"

\* C6: missing-chunk tolerance. A read raises only after a backend call has
\* failed, never because keys are missing; when it returns, its table is the
\* batches of the present keys in key order, and the present count it logs
\* plus the number of missing keys is the number of keys requested.
C6_MissingTolerated ==
    /\ rpc = "raised" => faults > 0
    /\ rpc = "returned" =>
          /\ table = PresentBatches
          /\ report.present = Len(PresentAddrs)
          /\ report.total = Len(ReqAddrs)

\* a read returned with a missing key between two present ones
C6_Witness ==
    /\ rpc = "returned"
    /\ \E a, b, c \in DOMAIN ReqAddrs :
          /\ a < b /\ b < c
          /\ IsStored(ReqAddrs[a]) /\ ~IsStored(ReqAddrs[b]) /\ IsStored(ReqAddrs[c])

\* the partition ids that have a chunk stored
StoredParts == {a[1] : a \in {x \in Addresses : ChunkKey(rargs.prefix, x[1], x[2]) \in DOMAIN store}}

IsAscending(l) == \A j, k \in DOMAIN l : j < k => l[j] < l[k]

\* the scan of discover_partitions has come back with cursor 0
ScanOver == rargs.discover /\ scan.pages >= 1 /\ scan.cursor = 0

\* C7: discovery completeness. When the scan is over, the partitions found are
\* exactly those with a stored chunk, and the list handed on is ascending
\* without duplicates, however the backend cut the keys into pages.
C7_DiscoveryComplete ==
    ScanOver =>
        /\ scan.found = StoredParts
        /\ StoredParts # {} =>
              /\ IsAscending(partitions)
              /\ Range(partitions) = StoredParts

\* a scan of several pages found two partitions
C7_Witness ==
    /\ ScanOver
    /\ scan.pages = 2
    /\ Cardinality(StoredParts) = 2
    /\ Cardinality(DOMAIN store) >= 3

Holders == {t \in DOMAIN tasks : tasks[t].st \in {"calling", "sleeping"}}

\* C9: write backpressure. The write tasks that hold the semaphore, and so the
\* SET calls outstanding, never number more than max_inflight.
C9_WriteBackpressure == Cardinality(Holders) <= sargs.max_inflight

\* the semaphore is full and a dispatched write waits for it
C9_Witness ==
    /\ Cardinality(Holders) = sargs.max_inflight
    /\ \E t \in DOMAIN tasks : tasks[t].st = "pending"
    /\ spc = "gather"

\* the fetch groups with a multi-get outstanding
Fetching == {g \in DOMAIN ftasks : ftasks[g].st = "calling"}

\* C10: read backpressure. The fetch groups with an outstanding multi-get
\* never number more than concurrency.
C10_ReadBackpressure == Cardinality(Fetching) <= rargs.concurrency

\* as many multi-gets as the semaphore admits are outstanding and a group waits
C10_Witness ==
    /\ rpc = "fetch"
    /\ Cardinality(Fetching) = rargs.concurrency
    /\ \E g \in DOMAIN ftasks : ftasks[g].st = "pending"

\* the write tasks that have settled: finished or raised
Settled == {t \in DOMAIN tasks : tasks[t].st \in {"done", "failed"}}

\* C11: settle before propagate. When a split has raised because a write
\* failed for good, and has closed its connection, no write task it dispatched
\* is still pending or running.
C11_SettleBeforePropagate ==
    (spc = "raised" /\ conn = "closed") => Settled = DOMAIN tasks

\* the largest id that fits the key field
RECURSIVE Pow10(_)
Pow10(n) == IF n = 0 THEN 1 ELSE 10 * Pow10(n - 1)

KeyFieldMax == Pow10(KeyWidth) - 1

\* the file holds a batch whose partition id does not fit the key field
HasWideId == \E k \in DOMAIN dataset : SourcePart(k) > KeyFieldMax

\* C12: width overflow. A split of a file that holds a batch whose partition
\* id is above 99999 produces no key for it and attempts no write at all: it
\* dispatches no write task, issues no SET, stores nothing and never returns.
C12_WidthOverflow ==
    HasWideId =>
        /\ tasks = <<>>
        /\ "set" \notin issued
        /\ store = EmptyStore
        /\ spc # "returned"

\* the batch-in-partition id of source batch k: the number of earlier batches
\* of the file that map to the same partition
Rank(k) == Cardinality({j \in 1..(k - 1) : SourcePart(j) = SourcePart(k)})

\* the key of the address assigned to source batch k
AddressKey(k) == ChunkKey(sargs.prefix, SourcePart(k), Rank(k))

\* C13: the chunk index is never corrupted. In every state of a split, during
\* retries, after transient failures and after the split has raised, every
\* stored key is the key of the address of one source batch and holds the
\* serialized payload of that batch and of no other.
C13_IndexNotCorrupted ==
    \A key \in DOMAIN store :
        \E k \in DOMAIN dataset :
            /\ key = AddressKey(k)
            /\ store[key] = Encode(dataset[k], sargs.compression)
            /\ \A j \in DOMAIN dataset : j # k => Decode(store[key]) # dataset[j]

\* a write that the backend applied but reported as failed waits for its next
\* attempt, while another write has succeeded on a retry
C13_Witness ==
    /\ \E t \in DOMAIN tasks : tasks[t].st = "sleeping" /\ tasks[t].key \in DOMAIN store
    /\ \E t \in DOMAIN tasks : tasks[t].st = "done" /\ tasks[t].attempt > 0
    /\ Cardinality(DOMAIN store) >= 2

\* C14: empty discovery. When a read with partitions unspecified runs on a
\* backend that holds no chunk of its prefix, the scan ends with no partition
\* found, the read returns an empty table, it raises only if a backend call
\* failed, and no multi-get is ever issued.
C14_EmptyDiscovery ==
    (rargs.discover /\ StoredParts = {}) =>
        /\ "mget" \notin issued
        /\ ftasks = <<>>
        /\ rpc = "raised" => faults > 0
        /\ ScanOver => (scan.found = {} /\ rpc = "returned" /\ table = <<>>)

\* a discovering read has returned from a backend that holds only a chunk of
\* another prefix, after a scan of two pages
C14_Witness ==
    /\ rargs.discover
    /\ store = ForeignStore
    /\ ScanOver
    /\ scan.pages = 2
    /\ rpc = "returned"

\* the fetch groups whose multi-get has failed on every attempt of its budget
Spent == {g \in DOMAIN ftasks : ftasks[g].fails = MaxRetries}

\* C15: read abort on exhausted budget. Once the multi-get of a fetch group
\* has failed on every one of its attempts, the read never gets past its
\* fetch stage: it parses nothing and returns no table, whatever the other
\* groups fetched, and the one step left to its gather is to raise.
C15_ReadAbort ==
    Spent # {} =>
        /\ rpc \in {"fetch", "raised"}
        /\ results = <<>>
        /\ ptasks = <<>>
        /\ table = <<>>
        /\ \A g \in Spent : ftasks[g].st = "failed"
        /\ rpc = "fetch" => (ENABLED ReadGatherRaise /\ ~ENABLED ReadGatherDone)

\* a read has raised for one spent group after another group had fetched a
\* stored chunk
C15_Witness ==
    /\ rpc = "raised"
    /\ Spent # {}
    /\ \E g \in DOMAIN ftasks :
          /\ ftasks[g].st = "done"
          /\ \E j \in DOMAIN ftasks[g].vals : Truthy(ftasks[g].vals[j])

\* number of fetch groups built for each requested partition
GroupsPer == IF partitions = <<>> THEN 0 ELSE Len(all_chunks) \div Len(partitions)

\* the key list of partition p for batches 0..batches_per_part-1
KeyList(p) == [b \in 1..rargs.batches_per_part |-> ChunkKey(rargs.prefix, p, b - 1)]

\* C16: fetch-group partition. Every fetch group holds at least 1 and at most
\* pipeline keys; each requested partition has the same number of groups, and
\* its groups joined in submission order are exactly its key list for batches
\* 0..batches_per_part-1, every key once, in ascending batch order.
C16_FetchGroups ==
    rpc = "built" =>
        /\ \A g \in DOMAIN all_chunks :
              Len(all_chunks[g]) >= 1 /\ Len(all_chunks[g]) <= rargs.pipeline
        /\ Len(all_chunks) = Len(partitions) * GroupsPer
        /\ \A k \in DOMAIN partitions :
              Flatten(SubSeq(all_chunks, (k - 1) * GroupsPer + 1, k * GroupsPer))
                  = KeyList(partitions[k])

\* two partitions of 3 batches cut with a pipeline of 2: a full and a short
\* group each
C16_Witness ==
    /\ rpc = "built"
    /\ Len(partitions) = 2
    /\ rargs.batches_per_part = 3
    /\ rargs.pipeline = 2
    /\ Len(all_chunks) = 4

\* index of the first c in key at or after index from (0: none)
RECURSIVE FirstIndex(_, _, _)
FirstIndex(key, c, from) ==
    IF from > Len(key) THEN 0
    ELSE IF key[from] = c THEN from
    ELSE FirstIndex(key, c, from + 1)

\* the part of a key that a sharded backend hashes: what stands between the
\* first "{" and the first "}" after it when that is not empty, else the key
HashTag(key) ==
    LET o == FirstIndex(key, "{", 1)
        c == IF o = 0 THEN 0 ELSE FirstIndex(key, "}", o + 1)
    IN IF o = 0 \/ c = 0 \/ c = o + 1 THEN key ELSE SubSeq(key, o + 1, c - 1)

\* part=PPPPP
RoutingTag(p) == <<"p", "a", "r", "t", "=">> \o Format05d(p)

\* C17: routing-tag co-location. Every key of a requested partition p hashes
\* on the routing tag part=PPPPP of p, two partitions have different tags, and
\* all keys of one fetch group carry the tag of one partition, also when the
\* pipeline is wider than a partition's key list.
C17_RoutingTag ==
    rpc = "built" =>
        /\ \A p \in Range(partitions) : \A b \in 0..(rargs.batches_per_part - 1) :
              HashTag(ChunkKey(rargs.prefix, p, b)) = RoutingTag(p)
        /\ \A p, q \in Range(partitions) : p # q => RoutingTag(p) # RoutingTag(q)
        /\ \A g \in DOMAIN all_chunks : \E p \in Range(partitions) :
              \A j \in DOMAIN all_chunks[g] : HashTag(all_chunks[g][j]) = RoutingTag(p)

\* two partitions of 2 batches each, read with a pipeline of 3
C17_Witness ==
    /\ rpc = "built"
    /\ Len(partitions) = 2
    /\ partitions[1] # partitions[2]
    /\ rargs.batches_per_part = 2
    /\ rargs.pipeline = 3
    /\ Len(all_chunks) = 2

\* C18: single addressing contract. For every prefix and address, the key the
\* reader builds is the key under which the splitter stores the address, so a
\* multi-get of the reader's key on a backend where the splitter's key was set
\* returns the chunk.
C18_SingleAddressing ==
    kres # NoKeyRes =>
        /\ kres.r1 = kres.k1
        /\ MGet(StoreSet(EmptyStore, kres.k1, StoredChunk(0, 0)), <<kres.r1>>)
               = <<StoredChunk(0, 0)>>

\* the two keys of an address with ids as wide as the field
C18_Witness ==
    /\ kres # NoKeyRes
    /\ kargs.prefix = BenchPrefix
    /\ kargs.p1 = 99999
    /\ kargs.b1 = 10000
    /\ Len(kres.r1) = Len(BenchPrefix) + 25

\* C19: key parse round trip. For every partition id p in 0..99999 (and for
\* 100000 as well) and every batch id b, the key of (prefix, p, b) matches the
\* scan pattern of the prefix, the regular expression of discovery finds a tag
\* in it, and the partition id parsed from it is p.
C19_ParseRoundTrip ==
    kres # NoKeyRes =>
        /\ kres.match1
        /\ kres.found1
        /\ kres.part1 = kargs.p1

\* the partition id parsed from a key whose two ids differ and carry leading
\* zeros
C19_Witness ==
    /\ kres # NoKeyRes
    /\ kargs.p1 = 10
    /\ kargs.b1 = 9999
    /\ kres.part1 = 10

\* min(base_delay * 2^k, max_delay)
Capped(base_delay, k, max_delay) ==
    IF base_delay * 2^k < max_delay THEN base_delay * 2^k ELSE max_delay

\* C20: backoff schedule. In a call of retry_with_backoff with N = max_retries
\* >= 1, the wait after failed attempt k (0-based, k < N-1) is
\* min(base_delay * 2^k, max_delay); there is one wait between two consecutive
\* attempts and none after the last: a call that has raised has made N
\* attempts and waited N-1 times.
C20_BackoffSchedule ==
    (retry.st \notin {"idle", "start"} /\ retry.max_retries >= 1) =>
        /\ \A k \in DOMAIN retry.delays :
              retry.delays[k] = Capped(retry.base_delay, k - 1, retry.max_delay)
        /\ retry.st = "sleeping" =>
              /\ Len(retry.delays) = retry.calls
              /\ retry.calls < retry.max_retries
        /\ retry.st # "sleeping" => Len(retry.delays) = retry.calls - 1
        /\ retry.st = "failed" =>
              /\ retry.calls = retry.max_retries
              /\ Len(retry.delays) = retry.max_retries - 1

\* four failed attempts with base_delay 1 and max_delay 3: the third wait is
\* capped
C20_Witness ==
    /\ retry.st = "failed"
    /\ retry.max_retries = 4
    /\ retry.delays = <<1, 2, 3>>

\* the backend commands a read may issue
ReadCommands == {"ping", "scan", "mget"}

\* C21: the reader is read-only. In every read, with or without discovery,
\* returning or raising, the commands issued are ping, scan and multi-get
\* only, and no step of the read changes the stored key-to-payload mapping.
C21_ReaderReadOnly ==
    /\ [](issued \subseteq ReadCommands)
    /\ [][store' = store]_vars

\* a discovering read has scanned, fetched and returned chunks on a backend
\* that holds some
C21_Witness ==
    /\ rpc = "returned"
    /\ {"scan", "mget"} \subseteq issued
    /\ Len(table) >= 2
    /\ Cardinality(DOMAIN store) >= 2

\* what one successful write of every chunk of the file leaves in an empty
\* backend
ExpectedStore ==
    [key \in {AddressKey(k) : k \in DOMAIN dataset} |->
        Encode(dataset[CHOOSE k \in DOMAIN dataset : AddressKey(k) = key], sargs.compression)]

\* a split on an empty backend, or a second split of the same file under the
\* same prefix on the backend the first one has filled
InitResplit ==
    /\ retry = NoRetry
    /\ issued = {}
    /\ faults = 0
    /\ InitSplit
    /\ store \in {EmptyStore, ExpectedStore}
    /\ rargs = IdleReadArgs
    /\ rpc = "idle"
    /\ InitReadLocals

SpecResplit == InitResplit /\ [][SplitNext]_vars

\* C22: write idempotence. However often the SET of a chunk is repeated, by
\* retries after failures that the backend may or may not have applied, or by
\* a second split of the same file under the same prefix, every stored key
\* holds what one successful write of its chunk leaves, and a split that
\* returns leaves exactly the mapping of one successful write of every chunk.
C22_WriteIdempotent ==
    /\ \A key \in DOMAIN store :
          key \in DOMAIN ExpectedStore /\ store[key] = ExpectedStore[key]
    /\ spc = "returned" => store = ExpectedStore

\* in a second split, a write has succeeded on a retry while another chunk,
\* stored by the first split, still waits to be written again
C22_Witness ==
    /\ \E t \in DOMAIN tasks : tasks[t].st = "pending" /\ tasks[t].key \in DOMAIN store
    /\ \E t \in DOMAIN tasks : tasks[t].st = "done" /\ tasks[t].attempt > 0

\* C23: a connection failure is fatal and immediate. When open_redis fails,
\* split_ipc_to_redis and read_from_redis raise after that one failed call:
\* nothing is retried, no write task or fetch group exists, and no SET, scan
\* or multi-get is issued by the failed operation.
C23_ConnectFatal ==
    /\ []((spc = "raised" /\ conn = "none") =>
            /\ tasks = <<>>
            /\ issued = {"ping"}
            /\ store = EmptyStore
            /\ closes = 0
            /\ faults = 1)
    /\ []((rpc = "raised" /\ rconn = "none") =>
            /\ all_chunks = <<>>
            /\ ftasks = <<>>
            /\ issued \cap {"scan", "mget"} = {}
            /\ rcloses = 0
            /\ table = <<>>)
    /\ [][(spc = "start" /\ spc' = "raised" /\ conn' = "none") => faults' = faults + 1]_vars
    /\ [][(rpc = "start" /\ rpc' = "raised") => faults' = faults + 1]_vars

\* the read that follows a successful split could not connect
C23_Witness ==
    /\ rpc = "raised"
    /\ rconn = "none"
    /\ spc = "left"
    /\ DOMAIN store # {}

\* C24: chunk count. A split that returns reports a chunk count equal to the
\* number of batches of the file, which is the number of write tasks it
\* dispatched, the number of distinct keys they wrote and, on a backend that
\* was empty, the number of keys stored.
C24_ChunkCount ==
    spc = "returned" =>
        /\ total = Len(dataset)
        /\ total = Len(tasks)
        /\ total = Cardinality(TaskKeys)
        /\ total = Cardinality(DOMAIN store)

\* a split of 3 batches of one partition has returned
C24_Witness ==
    /\ spc = "returned"
    /\ total = 3
    /\ Cardinality(SourceParts) = 1

\* the write tasks dispatched and not yet awaited by a gather that returned
Unawaited == Range(put_tasks)

\* C25: bounded task accumulation. In every state of a split the write tasks
\* not yet awaited number at most batch_gather_size; when they number
\* batch_gather_size the splitter is in its gather (or has raised from it),
\* and whenever it is back in its loop to read the next batch every task it
\* has awaited has finished.
C25_BoundedAccumulation ==
    /\ Cardinality(Unawaited) = Len(put_tasks)
    /\ Len(put_tasks) <= sargs.batch_gather_size
    /\ Len(put_tasks) = sargs.batch_gather_size => spc \in {"gather", "raised"}
    /\ spc \in {"loop", "gather", "final_gather", "returned"} =>
          \A t \in DOMAIN tasks \ Unawaited : tasks[t].st = "done"

\* the splitter awaits a full group of 2 tasks with a batch still to read
C25_Witness ==
    /\ spc = "gather"
    /\ sargs.batch_gather_size = 2
    /\ Len(put_tasks) = 2
    /\ i < Len(dataset)

\* C26: address assignment is independent of write scheduling. The counters
\* next_batch_idx change only in a step of the coordinating loop that
\* dispatches a batch; the key and payload of the task of source batch k are
\* those of its address, which is fixed by batches 0..k of the file alone;
\* and a split that returns leaves the same store whatever the order in which
\* the write tasks ran and finished.
C26_SchedulingIndependent ==
    /\ [](\A t \in DOMAIN tasks :
             /\ tasks[t].key = AddressKey(t)
             /\ tasks[t].payload = Encode(dataset[t], sargs.compression))
    /\ [](spc = "returned" => store = ExpectedStore)
    /\ [][next_batch_idx' # next_batch_idx =>
             (spc = "loop" /\ i' = i + 1 /\ Len(tasks') = Len(tasks) + 1)]_vars

\* the write of a later batch of a partition has finished while the write of
\* an earlier batch of the same partition has not
C26_Witness ==
    \E t1, t2 \in DOMAIN tasks :
        /\ t1 < t2
        /\ SourcePart(t1) = SourcePart(t2)
        /\ tasks[t2].st = "done"
        /\ tasks[t1].st \in {"pending", "calling", "sleeping"}

\* C27: fallback addressing. The partition id in the key of the write task of
\* source batch number k (0-based) is k \div batches_per_partition when the
\* batch has no partition column, and the value of the column, whatever k is,
\* when it has one.
C27_FallbackAddressing ==
    \A t \in DOMAIN tasks :
        /\ TagFound(tasks[t].key)
        /\ dataset[t].hascol => ParsePart(tasks[t].key) = dataset[t].part
        /\ ~dataset[t].hascol =>
              ParsePart(tasks[t].key) = (t - 1) \div sargs.batches_per_partition

\* the third batch of a file without partition column, split with 2 batches
\* per partition, is given partition 1
C27_Witness ==
    /\ Len(tasks) = 3
    /\ ~dataset[3].hascol
    /\ sargs.batches_per_partition = 2
    /\ ParsePart(tasks[3].key) = 1

\* what the backend holds at an address: the payload, or the missing marker
ValueAt(a) == IF IsStored(a) THEN store[ChunkKey(rargs.prefix, a[1], a[2])] ELSE NoneVal

\* C28: flatten preserves key correspondence. The result list of every fetch
\* group that has finished is as long as its key list, and once the results
\* are flattened, position k of the result list holds the value of the k-th
\* requested key (partitions in request order, batch ids ascending), whatever
\* the order in which the groups finished.
C28_FlattenKeyOrder ==
    /\ \A g \in DOMAIN ftasks :
          ftasks[g].st = "done" => Len(ftasks[g].vals) = Len(all_chunks[g])
    /\ rpc \in {"parse", "returned"} =>
          /\ Len(results) = Len(ReqAddrs)
          /\ \A k \in DOMAIN results : results[k] = ValueAt(ReqAddrs[k])

\* the groups finished in reverse submission order and the flattened results
\* hold a missing marker between payloads
C28_Witness ==
    /\ rpc = "parse"
    /\ Len(ftasks) >= 2
    /\ reversed
    /\ \E j, k, l \in DOMAIN results :
          /\ j < k /\ k < l
          /\ Truthy(results[j]) /\ ~Truthy(results[k]) /\ Truthy(results[l])

\* C29: the scan loop. discover_partitions starts at cursor 0 and hands each
\* cursor returned to the next scan call; the partitions found are those of the
\* keys of every page returned, the page that came with cursor 0 included; it
\* goes on scanning only while the cursor returned is not 0, leaves the loop
\* only on a call that returned 0, and makes no call after that one; with a
\* backend whose cursors come back to 0, a read that is scanning always leaves
\* the scan.
C29_ScanLoop ==
    /\ [](rargs.discover =>
            /\ scan.pages = 0 => scan.cursor = 0
            /\ \A p \in 0..MaxPartId :
                  p \in scan.found <=>
                      \E k \in scan.seen : TagFound(k) /\ ParsePart(k) = p
            /\ rpc = "discover" => (scan.pages = 0 \/ scan.cursor # 0)
            /\ rpc \in {"fetch", "parse", "returned"} => ScanOver)
    /\ [][scan'.pages = scan.pages + 1 => scan'.arg = scan.cursor]_vars
    /\ [][ScanOver => scan' = scan]_vars
    /\ (rpc = "discover") ~> (rpc # "discover")

\* a scan of two calls: the second was handed the cursor of the first, came
\* back with cursor 0 and a page that added a partition
C29_Witness ==
    /\ rpc = "fetch"
    /\ scan.pages = 2
    /\ scan.arg # 0
    /\ scan.cursor = 0
    /\ Cardinality(scan.found) = 2

\* k - 1 failures and then a success
FirstSuccessAt(k) == [j \in 1..k |-> IF j < k THEN "err" ELSE "ok"]

\* C30: retry stops at first success. When retry_with_backoff has returned,
\* some attempt k <= max_retries was the first to succeed, the value returned is
\* that attempt's and exactly k calls of func were made; when every attempt has
\* failed, the error raised is that of attempt max_retries; once the wrapper has
\* returned or raised, it makes no further call.
C30_StopAtFirstSuccess ==
    /\ [](retry.st = "returned" =>
            \E k \in 1..retry.max_retries :
                /\ retry.outcomes = FirstSuccessAt(k)
                /\ retry.result = k
                /\ retry.calls = k)
    /\ [](retry.st = "failed" /\ retry.max_retries >= 1 =>
            /\ retry.outcomes = [j \in 1..retry.max_retries |-> "err"]
            /\ retry.error = retry.max_retries
            /\ retry.calls = retry.max_retries)
    /\ [][retry.st \in {"returned", "failed"} => retry' = retry]_vars

\* the third of four attempts was the first to succeed
C30_Witness ==
    /\ retry.st = "returned"
    /\ retry.max_retries = 4
    /\ retry.outcomes = <<"err", "err", "ok">>
    /\ retry.result = 3

\* every write task has ended, in success or in failure
AllTasksSettled == \A t \in DOMAIN tasks : tasks[t].st \in {"done", "failed"}

\* C31: a write task holds its semaphore slot for its whole retry sequence.
\* Once tasks exist, the slots taken are exactly those of the tasks that are
\* in a SET call or in a backoff sleep, so a task that has ended has given its
\* slot back once and a sleeping task still holds one; a task enters its first
\* call only while fewer than max_inflight tasks are calling or sleeping;
\* waking from a backoff sleep neither takes nor gives a slot; and when every
\* task has ended, no slot is held.
C31_SlotHeldAcrossRetry ==
    /\ [](tasks # <<>> =>
            /\ sem = sargs.max_inflight - Cardinality(Holders)
            /\ AllTasksSettled => sem = sargs.max_inflight)
    /\ [][\A t \in DOMAIN tasks :
            /\ (tasks[t].st = "pending" /\ tasks'[t].st = "calling") =>
                  Cardinality(Holders) < sargs.max_inflight
            /\ (tasks[t].st = "sleeping" /\ tasks'[t].st = "calling") => sem' = sem]_vars

\* with one slot, one task sleeps in backoff and holds it while another waits
C31_Witness ==
    /\ sargs.max_inflight = 1
    /\ Len(tasks) = 2
    /\ tasks[1].st = "sleeping"
    /\ tasks[2].st = "pending"
    /\ sem = 0

\* the write tasks with a SET call outstanding
Calling == {t \in DOMAIN tasks : tasks[t].st = "calling"}

\* a SET call is outstanding only while the loop waits at a gather
C32_GatherOnly == Calling # {} => spc \in {"gather", "final_gather"}

\* a task is dispatched only when every earlier task has finished or belongs
\* to the group being filled and has not started
C32_GroupBarrier ==
    [][Len(tasks') > Len(tasks) =>
          \A t \in DOMAIN tasks :
              \/ tasks[t].st = "done"
              \/ t \in Unawaited /\ tasks[t].st = "pending"]_vars

\* the SET calls outstanding never number more than either limit
C32_OutstandingBound ==
    Cardinality(Calling) <= Min(sargs.max_inflight, sargs.batch_gather_size)

\* C32: effective write concurrency. Every SET call runs while the loop is
\* waiting at a gather, no task is dispatched until every task of the current
\* group has finished, and the SET calls outstanding never number more than
\* min(max_inflight, batch_gather_size).
C32_EffectiveConcurrency ==
    /\ []C32_GatherOnly
    /\ C32_GroupBarrier
    /\ []C32_OutstandingBound

\* split_ipc_to_redis has returned its metrics or raised
SplitEnded == spc \in {"returned", "raised"}

\* C33: split terminates. With max_inflight >= 1 and batch_gather_size >= 1
\* and SET calls that return or fail, every split of a finite file ends:
\* split_ipc_to_redis returns or raises, so neither the semaphore nor a gather
\* blocks it for ever; and until it has ended, some step of it can be taken.
C33_SplitTerminates ==
    /\ (sargs.max_inflight >= 1 /\ sargs.batch_gather_size >= 1) => <>SplitEnded
    /\ [](~SplitEnded => ENABLED SplitNext)

\* a split of two batches with a single slot has returned after a retry
C33_Witness ==
    /\ spc = "returned"
    /\ sargs.max_inflight = 1
    /\ Len(tasks) >= 2
    /\ \E t \in DOMAIN tasks : tasks[t].calls >= 2

C34_FileFailPath == spc = "raised" /\ tasks = <<>> /\ conn = "closed"

C34_WriteFailPath == spc = "raised" /\ (\E t \in DOMAIN tasks : tasks[t].st = "failed")

C34_SplitReturnPath == spc = "returned" /\ tasks # <<>>

C34_ReadReturnPath == rpc = "returned" /\ table # <<>>

C34_EmptyDiscoveryPath == rpc = "returned" /\ rargs.discover /\ partitions = <<>>

\* the keys stored that the split has assigned to none of its tasks
Untouched == DOMAIN store \ TaskKeys

\* C35: split only adds or overwrites. A split issues no command but the
\* connection check and SET; each of its steps keeps every stored key, changes
\* or adds only keys the split has assigned to its write tasks, all of them
\* under its prefix; so a chunk that an earlier split left at an address this
\* split does not assign is still stored with its payload, still matches the
\* scan pattern with its partition id, and is what a multi-get of its address
\* returns.
C35_AddOrOverwrite ==
    /\ [](issued \subseteq {"ping", "set"})
    /\ [](\A k \in TaskKeys : HasPrefix(k, sargs.prefix \o <<":">>))
    /\ [][/\ DOMAIN store \subseteq DOMAIN store'
          /\ \A k \in DOMAIN store' :
                (k \notin DOMAIN store \/ store'[k] # store[k]) => k \in TaskKeys']_vars
    /\ [](\A a \in Addresses :
            LET k == ChunkKey(sargs.prefix, a[1], a[2])
            IN k \in Untouched =>
                  /\ store[k] = StoredChunk(a[1], a[2])
                  /\ GlobMatch(k, sargs.prefix)
                  /\ TagFound(k) /\ ParsePart(k) = a[1]
                  /\ MGet(store, <<ReadKey(sargs.prefix, a[1], a[2])>>) =
                        <<StoredChunk(a[1], a[2])>>)

\* a split has returned after writing its chunks over those of an earlier
\* split, which had also stored a partition beyond the ones written now
C35_Witness ==
    /\ spc = "returned"
    /\ TaskKeys # {}
    /\ TaskKeys \subseteq DOMAIN store
    /\ \E a \in Addresses :
          /\ ChunkKey(sargs.prefix, a[1], a[2]) \in Untouched
          /\ \A t \in DOMAIN tasks : ParsePart(tasks[t].key) < a[1]

====
